---- MODULE Spec2Model ----
(***************************************************************************)
(* echolog: a console-logging layer over Python's logging module.          *)
(* State: the process-wide logging namespace (per-logger handler lists and *)
(* thresholds, the shared level-name table, the ECHO / echo attributes)    *)
(* and a record of the last public call and what it produced.              *)
(* Operations: get_logger, echo, newline (echolog.py).                     *)
(***************************************************************************)
EXTENDS Integers, Sequences, FiniteSets, TLC

---------------------------------------------------------------------------
(* Bounds of the model *)

\* number of StreamHandler objects the process may create
MaxHandlers == 2
\* positional / keyword arguments in one echo call
MaxPos == 2
MaxKw == 1
\* largest n passed to newline
MaxN == 3
\* value of logging.ECHO when another library bound that name first
ForeignEchoValue == 25

---------------------------------------------------------------------------
(* Levels of the logging module *)

NOTSET == 0
DEBUG == 10
INFO == 20
WARNING == 30
ERROR == 40
CRITICAL == 50

ECHO_LEVEL == DEBUG + 5

\* the optional arguments: <<>> is None, <<v>> is the value v
None == <<>>
Some(v) == <<v>>

LevelArgs == {DEBUG, WARNING}
ValidFormats == {"short", "short-time", "long", "long-time"}
FormatArgs == ValidFormats \cup {"bad"}

\* logger identifiers; Root stands for id=None
Root == "root"
Ids == {Root, "a"}

\* logging.Logger.parent: the parent of a top-level named logger is the root
Parent(id) == Root

---------------------------------------------------------------------------
(* State *)

VARIABLES
    handlers,      \* logger id -> sequence of attached handlers
    level,         \* logger id -> logger.level
    levelToName,   \* logging._levelToName
    attrECHO,      \* binding of the module attribute logging.ECHO
    modEcho,       \* binding of the module attribute logging.echo
    clsEcho,       \* binding of the method Logger.echo
    nextH,         \* number of handler objects created so far
    regCount,      \* number of times __add_logging_level injected the level
    last,          \* the last public call, its arguments and its outcome
    thr            \* thread -> the get_logger call it is running, by line

cfgvars == <<handlers, level, levelToName, attrECHO, modEcho, clsEcho>>
vars == <<handlers, level, levelToName, attrECHO, modEcho, clsEcho,
          nextH, regCount, last, thr>>

\* the process-wide state as one value, for the operators below
Cur ==
    [handlers |-> handlers, level |-> level, levelToName |-> levelToName,
     attrECHO |-> attrECHO, modEcho |-> modEcho, clsEcho |-> clsEcho,
     nextH |-> nextH, regCount |-> regCount]

\* logging._levelToName of a fresh interpreter
DefaultLevelNames ==
    (NOTSET :> "NOTSET") @@ (DEBUG :> "DEBUG") @@ (INFO :> "INFO") @@
    (WARNING :> "WARNING") @@ (ERROR :> "ERROR") @@ (CRITICAL :> "CRITICAL")

---------------------------------------------------------------------------
(* __add_logging_level('ECHO', ECHO_LEVEL) and __get_echo_level *)

\* the value read by the expression logging.ECHO
logging_ECHO(s) == IF s.attrECHO = "own" THEN ECHO_LEVEL ELSE ForeignEchoValue

add_logging_level(s) ==
    IF s.attrECHO # "unbound" \/ s.modEcho # "unbound" \/ s.clsEcho # "unbound"
    THEN [s |-> s, outcome |-> "AttributeError: already defined"]
    ELSE [s |-> [s EXCEPT
                   !.levelToName = (ECHO_LEVEL :> "ECHO") @@ @,
                   !.attrECHO = "own",
                   !.clsEcho = "own",
                   !.modEcho = "own",
                   !.regCount = @ + 1],
          outcome |-> "ok"]

\* a variant without the hasattr guard
get_echo_level_unguarded(s) == add_logging_level(s)

get_echo_level(s) ==
    IF s.attrECHO = "unbound"
    THEN add_logging_level(s)
    ELSE [s |-> s, outcome |-> "ok"]

---------------------------------------------------------------------------
(* Tag tables and __rename_logging_level_names *)

\* the keys of `values`, in insertion order
ValKeys == <<"DEBUG", "INFO", "ECHO", "WARNING", "ERROR", "CRITICAL", "NOTSET">>

values(s) ==
    [k \in {ValKeys[i] : i \in 1..Len(ValKeys)} |->
        CASE k = "DEBUG" -> DEBUG
          [] k = "INFO" -> INFO
          [] k = "ECHO" -> logging_ECHO(s)
          [] k = "WARNING" -> WARNING
          [] k = "ERROR" -> ERROR
          [] k = "CRITICAL" -> CRITICAL
          [] k = "NOTSET" -> NOTSET]

tags_short ==
    [k \in {ValKeys[i] : i \in 1..Len(ValKeys)} |->
        CASE k = "DEBUG" -> "/"
          [] k = "INFO" -> "-"
          [] k = "ECHO" -> ">"
          [] k = "WARNING" -> "!"
          [] k = "ERROR" -> "x"
          [] k = "CRITICAL" -> "X"
          [] k = "NOTSET" -> "?"]

tags_long ==
    [k \in {ValKeys[i] : i \in 1..Len(ValKeys)} |->
        CASE k = "DEBUG" -> "DEBUG"
          [] k = "INFO" -> "INFO"
          [] k = "ECHO" -> "ECHO"
          [] k = "WARNING" -> "WARN"
          [] k = "ERROR" -> "ERROR"
          [] k = "CRITICAL" -> "FATAL"
          [] k = "NOTSET" -> "UNSET"]

\* a variant of the 'long-time' loop that pads nothing
pad_long_time_none(tag) == tag

\* the padding loops of the 'long' and 'long-time' branches
pad_long(tag) == IF Len(tag) = 4 THEN " " \o ("[" \o tag) ELSE "[" \o tag
pad_long_time(tag) == IF Len(tag) = 4 THEN " " \o tag ELSE tag

\* the tag table handed to __rename_logging_level_names for a valid format
tags_for(fmt) ==
    CASE fmt \in {"short", "short-time"} -> tags_short
      [] fmt = "long" -> [k \in DOMAIN tags_long |-> pad_long(tags_long[k])]
      [] fmt = "long-time" -> [k \in DOMAIN tags_long |-> pad_long_time(tags_long[k])]

fmt_str(fmt) ==
    CASE fmt = "short" -> "[%(levelname)s]"
      [] fmt = "short-time" -> "%(asctime)s.%(msecs)3d [%(levelname)s]"
      [] fmt = "long" -> "%(levelname)s]"
      [] fmt = "long-time" -> "[%(asctime)s.%(msecs)3d %(levelname)s]"

\* a variant that leaves a level alone once it has been renamed
rename_logging_level_names_once(names, tags, vals) ==
    [lv \in DOMAIN names |->
        LET hits == {i \in 1..Len(ValKeys) : vals[ValKeys[i]] = lv}
        IN IF hits = {} \/ (\A h \in hits : names[lv] # ValKeys[h])
           THEN names[lv]
           ELSE tags[ValKeys[CHOOSE i \in hits : \A j \in hits : j <= i]]]

\* for every level of the table: the tag of the last key of vals whose value
\* is that level, else the level's current name
rename_logging_level_names(names, tags, vals) ==
    [lv \in DOMAIN names |->
        LET hits == {i \in 1..Len(ValKeys) : vals[ValKeys[i]] = lv}
        IN IF hits = {} THEN names[lv]
           ELSE tags[ValKeys[CHOOSE i \in hits : \A j \in hits : j <= i]]]

---------------------------------------------------------------------------
(* get_logger *)

\* a variant that never finds a handler
hasHandlers_never(s, id) == FALSE

\* logging.Logger.hasHandlers: this logger or any ancestor has a handler
RECURSIVE hasHandlers(_, _)
hasHandlers(s, id) ==
    IF s.handlers[id] # <<>> THEN TRUE
    ELSE IF id = Root THEN FALSE
    ELSE hasHandlers(s, Parent(id))

\* a variant that flushes on every call
flush_handlers_always(s, lvl, fmt, id) == [s EXCEPT !.handlers[id] = <<>>]

\* "if args were passed ... flush handlers"
flush_handlers(s, lvl, fmt, id) ==
    IF lvl # None \/ fmt # None
    THEN [s EXCEPT !.handlers[id] = <<>>]
    ELSE s

\* the handler built at the end of get_logger
new_handler(s, lv, f) ==
    [hid |-> s.nextH + 1, level |-> lv, formatter |-> fmt_str(f)]

\* a variant whose omitted level keeps the logger's previous threshold
configure_keep(s, lvl, fmt, id) ==
    LET lv == IF lvl = None THEN s.level[id] ELSE lvl[1]
        f == IF fmt = None THEN "short-time" ELSE fmt[1]
    IN IF f \notin ValidFormats
       THEN [s |-> s, outcome |-> "ValueError", fast |-> FALSE]
       ELSE [s |-> [s EXCEPT
                      !.levelToName =
                          rename_logging_level_names(@, tags_for(f), values(s)),
                      !.handlers[id] = Append(@, new_handler(s, lv, f)),
                      !.level[id] = lv,
                      !.nextH = @ + 1],
             outcome |-> "ok", fast |-> FALSE]

\* the else branch of get_logger, after the level was registered
configure(s, lvl, fmt, id) ==
    LET lv == IF lvl = None THEN logging_ECHO(s) ELSE lvl[1]
        f == IF fmt = None THEN "short-time" ELSE fmt[1]
    IN IF f \notin ValidFormats
       THEN [s |-> s, outcome |-> "ValueError", fast |-> FALSE]
       ELSE [s |-> [s EXCEPT
                      !.levelToName =
                          rename_logging_level_names(@, tags_for(f), values(s)),
                      !.handlers[id] = Append(@, new_handler(s, lv, f)),
                      !.level[id] = lv,
                      !.nextH = @ + 1],
             outcome |-> "ok", fast |-> FALSE]

get_logger(s, lvl, fmt, id) ==
    LET s1 == flush_handlers(s, lvl, fmt, id)
    IN IF hasHandlers(s1, id)
       THEN [s |-> s1, outcome |-> "ok", fast |-> TRUE]
       ELSE LET r == get_echo_level(s1)
            IN IF r.outcome # "ok"
               THEN [s |-> r.s, outcome |-> r.outcome, fast |-> FALSE]
               ELSE configure(r.s, lvl, fmt, id)

---------------------------------------------------------------------------
(* Actions *)

\* the threads that may run get_logger side by side
Threads == {1, 2}

\* a thread that has not called get_logger yet
Idle ==
    [pc |-> "idle", lvl |-> None, fmt |-> None, id |-> Root,
     outcome |-> "none", overlapped |-> FALSE]

NoCall ==
    [op |-> "none", id |-> Root, level |-> None, fmt |-> None, n |-> 0,
     pos |-> <<>>, kws |-> <<>>, outcome |-> "ok", fast |-> FALSE,
     sent |-> <<>>, emitted |-> <<>>, printed |-> 0,
     levelno |-> 0, rendered |-> <<>>]

Install(s) ==
    /\ s.nextH <= MaxHandlers
    /\ handlers' = s.handlers
    /\ level' = s.level
    /\ levelToName' = s.levelToName
    /\ attrECHO' = s.attrECHO
    /\ modEcho' = s.modEcho
    /\ clsEcho' = s.clsEcho
    /\ nextH' = s.nextH
    /\ regCount' = s.regCount
    /\ thr' = thr

Init ==
    /\ handlers = [i \in Ids |-> <<>>]
    /\ level = [i \in Ids |-> IF i = Root THEN WARNING ELSE NOTSET]
    /\ levelToName = DefaultLevelNames
    /\ attrECHO \in {"unbound", "foreign"}
    /\ modEcho \in {"unbound", "foreign"}
    /\ clsEcho \in {"unbound", "foreign"}
    /\ nextH = 0
    /\ regCount = 0
    /\ last = NoCall
    /\ thr = [t \in Threads |-> Idle]

\* a get_logger call with its level drawn from Ls and its format from Fs
GetLoggerWith(Ls, Fs) ==
    \E lvl \in {None} \cup {Some(l) : l \in Ls},
       fmt \in {None} \cup {Some(f) : f \in Fs},
       id \in Ids :
        LET r == get_logger(Cur, lvl, fmt, id)
        IN /\ Install(r.s)
           /\ last' = [NoCall EXCEPT !.op = "get_logger", !.id = id,
                          !.level = lvl, !.fmt = fmt,
                          !.outcome = r.outcome, !.fast = r.fast]

GetLogger == GetLoggerWith(LevelArgs, FormatArgs)

\* the get_logger calls made around the echo calls under study
GetLoggerFew == GetLoggerWith(LevelArgs, {"bad"})

---------------------------------------------------------------------------
(* echo: the caller's source line and its textual parse *)

\* argument expressions as they are written at a call site, as token
\* sequences; ", " (comma, space) is one token, the separator echo splits on
Exprs == { <<"a">>, <<"f", "(", "x", ", ", "y", ")">> }
KwNames == {"label", "tag"}
KwExprs == { <<"b">> }

\* the runtime value an argument expression evaluates to
Val(e) == <<"value of", e>>

RECURSIVE Join(_)
Join(parts) ==
    IF parts = <<>> THEN <<>>
    ELSE IF Len(parts) = 1 THEN parts[1]
    ELSE parts[1] \o <<", ">> \o Join(Tail(parts))

\* the text of a keyword argument, key=expr
KwText(kw) == <<kw.key, "=">> \o kw.expr

\* frameinfo.code_context[0] for a call written on one line
CallLine(pos, kws) ==
    <<"echo", "(">>
    \o Join(pos \o [i \in 1..Len(kws) |-> KwText(kws[i])])
    \o <<")", "\n">>

\* re.search(r"\((.*)\)", line): from the first "(" that has a ")" after it
\* up to the last ")"; <<FALSE, <<>>>> when nothing matches
re_search(line) ==
    LET closes == {j \in 1..Len(line) : line[j] = ")"}
        opens == {i \in 1..Len(line) :
                     line[i] = "(" /\ \E j \in closes : j > i}
    IN IF opens = {} THEN <<FALSE, <<>>>>
       ELSE LET i == CHOOSE x \in opens : \A y \in opens : x <= y
                j == CHOOSE x \in closes : \A y \in closes : y <= x
            IN <<TRUE, SubSeq(line, i + 1, j - 1)>>

\* str.split(", ")
RECURSIVE split(_)
split(r) ==
    LET seps == {i \in 1..Len(r) : r[i] = ", "}
    IN IF seps = {} THEN <<r>>
       ELSE LET i == CHOOSE x \in seps : \A y \in seps : x <= y
            IN <<SubSeq(r, 1, i - 1)>> \o split(SubSeq(r, i + 1, Len(r)))

\* vnames[:n]
take(xs, n) == SubSeq(xs, 1, IF n < Len(xs) THEN n ELSE Len(xs))

\* the names echo pairs with the values
echo_vnames(r, kws) ==
    LET vnames == split(r)
        n_kw == Len(kws)
    IN IF n_kw > 0
       THEN take(vnames, n_kw + 1) \o [i \in 1..n_kw |-> <<kws[i].key>>]
       ELSE vnames

\* args, with the keyword values appended
echo_args(pos, kws) ==
    [i \in 1..Len(pos) |-> Val(pos[i])] \o [i \in 1..Len(kws) |-> Val(kws[i].expr)]

\* zip(vnames, args)
zip(xs, ys) ==
    [i \in 1..(IF Len(xs) < Len(ys) THEN Len(xs) ELSE Len(ys)) |-> <<xs[i], ys[i]>>]

\* a variant whose level gate is strict
RECURSIVE emit_strict(_, _)
emit_strict(s, pairs) ==
    IF pairs = <<>> THEN <<>>
    ELSE LET hs == s.handlers[Root]
             out == IF s.clsEcho = "own" /\ s.level[Root] < ECHO_LEVEL
                    THEN SelectSeq(hs, LAMBDA h : h.level <= ECHO_LEVEL)
                    ELSE <<>>
         IN [i \in 1..Len(out) |-> pairs[1]] \o emit_strict(s, Tail(pairs))

\* what the root logger writes for the records passed to log.echo: the
\* injected logForLevel gates on isEnabledFor(ECHO_LEVEL), then every handler
\* of the root logger whose threshold admits the record emits it
RECURSIVE emit(_, _)
emit(s, pairs) ==
    IF pairs = <<>> THEN <<>>
    ELSE LET hs == s.handlers[Root]
             out == IF s.clsEcho = "own" /\ s.level[Root] <= ECHO_LEVEL
                    THEN SelectSeq(hs, LAMBDA h : h.level <= ECHO_LEVEL)
                    ELSE <<>>
         IN [i \in 1..Len(out) |-> pairs[1]] \o emit(s, Tail(pairs))

echo(s, pos, kws) ==
    LET g == get_logger(s, None, None, Root)
        m == re_search(CallLine(pos, kws))
        pairs == zip(echo_vnames(m[2], kws), echo_args(pos, kws))
    IN IF g.outcome # "ok"
       THEN [s |-> g.s, outcome |-> g.outcome, sent |-> <<>>, emitted |-> <<>>]
       ELSE IF ~m[1]
       THEN [s |-> g.s, outcome |-> "AttributeError: no match",
             sent |-> <<>>, emitted |-> <<>>]
       ELSE IF pairs # <<>> /\ g.s.clsEcho = "unbound"
       THEN [s |-> g.s, outcome |-> "AttributeError: no echo method",
             sent |-> <<>>, emitted |-> <<>>]
       ELSE [s |-> g.s, outcome |-> "ok", sent |-> pairs, emitted |-> emit(g.s, pairs)]

---------------------------------------------------------------------------
(* newline *)

\* a variant that counts the joined string only
printed_newlines_joined(n) == IF n - 1 > 0 THEN n - 1 ELSE 0

\* the number of "\n" characters print() writes: the joined string of
\* n - 1 newlines (none when n - 1 <= 0) followed by print's own line end
printed_newlines(n) == (IF n - 1 > 0 THEN n - 1 ELSE 0) + 1

newline(s, n) ==
    LET g == get_logger(s, None, None, Root)
    IN IF g.outcome # "ok"
       THEN [s |-> g.s, outcome |-> g.outcome, printed |-> 0]
       ELSE IF g.s.level[Root] <= INFO
       THEN [s |-> g.s, outcome |-> "ok", printed |-> printed_newlines(n)]
       ELSE [s |-> g.s, outcome |-> "ok", printed |-> 0]

---------------------------------------------------------------------------
(* __CustomFormatter and the records a logger writes *)

\* the entries of the color table C that FORMATS uses
C_b == "ESC[34;1m"
C_g == "ESC[32;1m"
C_m == "ESC[35;1m"
C_y == "ESC[33;1m"
C_r == "ESC[31;1m"
C_bg_r == "ESC[41;1m"
C_gy == "ESC[38;1m"
C_reset == "ESC[0m"

\* the color FORMATS puts in front of the entry of each key
FormatColor ==
    [k \in {ValKeys[i] : i \in 1..Len(ValKeys)} |->
        CASE k = "DEBUG" -> C_b
          [] k = "INFO" -> C_g
          [] k = "ECHO" -> C_m
          [] k = "WARNING" -> C_y
          [] k = "ERROR" -> C_r
          [] k = "CRITICAL" -> C_bg_r
          [] k = "NOTSET" -> C_gy]

\* the template logging.Formatter falls back to when its fmt is None
DefaultTemplate == <<"%(message)s">>

\* __CustomFormatter.format: FORMATS.get(record.levelno), the entries keyed
\* by the level values (logging.ECHO as bound when the formatter was built,
\* which never changes once a handler exists); a level without an entry
\* gives None, and logging.Formatter(None) uses its default template
custom_format(s, fs, levelno) ==
    LET hits == {i \in 1..Len(ValKeys) : values(s)[ValKeys[i]] = levelno}
    IN IF hits = {} THEN DefaultTemplate
       ELSE <<FormatColor[ValKeys[CHOOSE i \in hits : \A j \in hits : j <= i]],
              fs, C_reset, " %(message)s">>

\* logging.getLevelName
getLevelName(s, levelno) ==
    IF levelno \in DOMAIN s.levelToName THEN s.levelToName[levelno]
    ELSE "Level " \o ToString(levelno)

\* Logger.getEffectiveLevel: the first non-zero level up the parent chain
RECURSIVE getEffectiveLevel(_, _)
getEffectiveLevel(s, id) ==
    IF s.level[id] # NOTSET THEN s.level[id]
    ELSE IF id = Root THEN NOTSET
    ELSE getEffectiveLevel(s, Parent(id))

\* Logger.callHandlers: the handlers of the logger and of its ancestors
RECURSIVE chain_handlers(_, _)
chain_handlers(s, id) ==
    IF id = Root THEN s.handlers[Root]
    ELSE s.handlers[id] \o chain_handlers(s, Parent(id))

\* the lines written for logger.log(levelno, msg) on logger id: one per
\* handler of the chain whose threshold admits the record, each with the
\* template its formatter picks and the level name read from the shared
\* table; with no handler at all, logging.lastResort (threshold WARNING,
\* default template) writes the line
log(s, id, levelno) ==
    IF levelno < getEffectiveLevel(s, id) THEN <<>>
    ELSE LET hs == chain_handlers(s, id)
             admitted == SelectSeq(hs, LAMBDA h : levelno >= h.level)
         IN IF hs = <<>>
            THEN IF levelno >= WARNING
                 THEN << [hid |-> 0, template |-> DefaultTemplate,
                          levelname |-> getLevelName(s, levelno)] >>
                 ELSE <<>>
            ELSE [i \in 1..Len(admitted) |->
                    [hid |-> admitted[i].hid,
                     template |-> custom_format(s, admitted[i].formatter, levelno),
                     levelname |-> getLevelName(s, levelno)]]

\* the severities of the records logged: the six of the ladder and one
\* that has no entry anywhere
RecordLevels == {DEBUG, ECHO_LEVEL, INFO, WARNING, ERROR, CRITICAL, WARNING + 5}

---------------------------------------------------------------------------
(* The remaining actions and the specification *)

\* sequences over S of length at most n
SeqsUpTo(S, n) == UNION {[1..k -> S] : k \in 0..n}

KwArgs ==
    {ks \in SeqsUpTo([key : KwNames, expr : KwExprs], MaxKw) :
        \A i, j \in 1..Len(ks) : ks[i].key = ks[j].key => i = j}

\* an echo call with its positional arguments drawn from Ps and its keyword
\* arguments from Ks
EchoWith(Ps, Ks) ==
    \E pos \in Ps, kws \in Ks :
        LET r == echo(Cur, pos, kws)
        IN /\ Install(r.s)
           /\ last' = [NoCall EXCEPT !.op = "echo", !.pos = pos, !.kws = kws,
                          !.outcome = r.outcome, !.sent = r.sent,
                          !.emitted = r.emitted]

Echo == EchoWith(SeqsUpTo(Exprs, MaxPos), KwArgs)

\* the one-argument call echo(a)
EchoPlain == EchoWith({ << <<"a">> >> }, { <<>> })

\* a newline call with n drawn from Ns
NewlineWith(Ns) ==
    \E n \in Ns :
        LET r == newline(Cur, n)
        IN /\ Install(r.s)
           /\ last' = [NoCall EXCEPT !.op = "newline", !.n = n,
                          !.outcome = r.outcome, !.printed = r.printed]

Newline == NewlineWith(0..MaxN)

\* newline() with the default n
NewlineDefault == NewlineWith({1})

\* every get_logger call, around plain echo calls and every newline call
Next == GetLogger \/ EchoPlain \/ Newline

Spec == Init /\ [][Next]_vars

\* every echo call, around a few get_logger calls and newline()
NextEcho == GetLoggerFew \/ Echo \/ NewlineDefault

SpecEcho == Init /\ [][NextEcho]_vars

\* logger.log(levelno, msg) on a logger obtained earlier
Log ==
    \E id \in Ids, levelno \in RecordLevels :
        /\ Install(Cur)
        /\ last' = [NoCall EXCEPT !.op = "log", !.id = id, !.levelno = levelno,
                       !.rendered = log(Cur, id, levelno)]

\* get_logger calls with every format
GetLoggerFormats == GetLoggerWith({DEBUG}, FormatArgs)

\* records logged around get_logger calls with every format
NextLog == GetLoggerFormats \/ Log

SpecLog == Init /\ [][NextLog]_vars

\* get_logger calls that put the thresholds below, at and above INFO
GetLoggerLevels == GetLoggerWith({DEBUG, INFO, WARNING}, {"bad"})

\* every newline call, around get_logger calls at the three thresholds
NextNewline == GetLoggerLevels \/ EchoPlain \/ Newline

SpecNewline == Init /\ [][NextNewline]_vars

---------------------------------------------------------------------------
(* get_logger run by two threads, one source line (or block) per step *)

\* a variant of the guard that always finds ECHO missing
echo_missing_always(s) == TRUE

\* the guard of __get_echo_level: not hasattr(logging, 'ECHO')
echo_missing(s) == s.attrECHO = "unbound"

\* thread t moves to line pc
Goto(t, pc) == thr' = [thr EXCEPT ![t].pc = pc]

\* thread t leaves get_logger with the given outcome
Finish(t, outcome) == thr' = [thr EXCEPT ![t].pc = "done", ![t].outcome = outcome]

Running(t) == thr[t].pc \notin {"idle", "done"}

\* the call starts; it overlaps when another thread is inside get_logger
Begin(t) ==
    /\ thr[t].pc = "idle"
    /\ \E lvl \in {None, Some(DEBUG)}, fmt \in {None, Some("long")}, id \in Ids :
          thr' = [thr EXCEPT ![t] =
                    [pc |-> "l100", lvl |-> lvl, fmt |-> fmt, id |-> id,
                     outcome |-> "none",
                     overlapped |-> \E u \in Threads \ {t} : Running(u)]]
    /\ UNCHANGED <<cfgvars, nextH, regCount, last>>

\* lines 100-106: look the logger up, flush and clear when args were passed
Flush(t) ==
    /\ thr[t].pc = "l100"
    /\ handlers' = flush_handlers(Cur, thr[t].lvl, thr[t].fmt, thr[t].id).handlers
    /\ Goto(t, "l109")
    /\ UNCHANGED <<level, levelToName, attrECHO, modEcho, clsEcho,
                   nextH, regCount, last>>

\* lines 109-110: return the logger when it has handlers
Check(t) ==
    /\ thr[t].pc = "l109"
    /\ IF hasHandlers(Cur, thr[t].id) THEN Finish(t, "ok") ELSE Goto(t, "l232")
    /\ UNCHANGED <<cfgvars, nextH, regCount, last>>

\* line 232: register only when logging has no attribute ECHO
Guard(t) ==
    /\ thr[t].pc = "l232"
    /\ IF echo_missing(Cur) THEN Goto(t, "l280") ELSE Goto(t, "l114")
    /\ UNCHANGED <<cfgvars, nextH, regCount, last>>

\* lines 280-285: the three already-defined checks of __add_logging_level
Check280(t) ==
    /\ thr[t].pc = "l280"
    /\ IF attrECHO # "unbound"
       THEN Finish(t, "AttributeError: already defined")
       ELSE Goto(t, "l282")
    /\ UNCHANGED <<cfgvars, nextH, regCount, last>>

Check282(t) ==
    /\ thr[t].pc = "l282"
    /\ IF modEcho # "unbound"
       THEN Finish(t, "AttributeError: already defined")
       ELSE Goto(t, "l284")
    /\ UNCHANGED <<cfgvars, nextH, regCount, last>>

Check284(t) ==
    /\ thr[t].pc = "l284"
    /\ IF clsEcho # "unbound"
       THEN Finish(t, "AttributeError: already defined")
       ELSE Goto(t, "l296")
    /\ UNCHANGED <<cfgvars, nextH, regCount, last>>

\* line 296: logging.addLevelName(levelNum, levelName)
Set296(t) ==
    /\ thr[t].pc = "l296"
    /\ levelToName' = (ECHO_LEVEL :> "ECHO") @@ levelToName
    /\ Goto(t, "l297")
    /\ UNCHANGED <<handlers, level, attrECHO, modEcho, clsEcho,
                   nextH, regCount, last>>

\* line 297: setattr(logging, levelName, levelNum)
Set297(t) ==
    /\ thr[t].pc = "l297"
    /\ attrECHO' = "own"
    /\ regCount' = regCount + 1
    /\ Goto(t, "l298")
    /\ UNCHANGED <<handlers, level, levelToName, modEcho, clsEcho, nextH, last>>

\* line 298: setattr(logging.getLoggerClass(), methodName, logForLevel)
Set298(t) ==
    /\ thr[t].pc = "l298"
    /\ clsEcho' = "own"
    /\ Goto(t, "l299")
    /\ UNCHANGED <<handlers, level, levelToName, attrECHO, modEcho,
                   nextH, regCount, last>>

\* line 299: setattr(logging, methodName, logToRoot)
Set299(t) ==
    /\ thr[t].pc = "l299"
    /\ modEcho' = "own"
    /\ Goto(t, "l114")
    /\ UNCHANGED <<handlers, level, levelToName, attrECHO, clsEcho,
                   nextH, regCount, last>>

\* lines 114-179: the defaults, the tag tables and the renaming
Rename(t) ==
    /\ thr[t].pc = "l114"
    /\ LET f == IF thr[t].fmt = None THEN "short-time" ELSE thr[t].fmt[1]
       IN IF f \notin ValidFormats
          THEN Finish(t, "ValueError") /\ UNCHANGED levelToName
          ELSE /\ levelToName' =
                     rename_logging_level_names(levelToName, tags_for(f), values(Cur))
               /\ Goto(t, "l182")
    /\ UNCHANGED <<handlers, level, attrECHO, modEcho, clsEcho,
                   nextH, regCount, last>>

\* lines 182-190: build the handler, set the thresholds, attach, return
Attach(t) ==
    /\ thr[t].pc = "l182"
    /\ nextH < MaxHandlers
    /\ LET lv == IF thr[t].lvl = None THEN logging_ECHO(Cur) ELSE thr[t].lvl[1]
           f == IF thr[t].fmt = None THEN "short-time" ELSE thr[t].fmt[1]
       IN /\ handlers' = [handlers EXCEPT ![thr[t].id] =
                             Append(@, new_handler(Cur, lv, f))]
          /\ level' = [level EXCEPT ![thr[t].id] = lv]
    /\ nextH' = nextH + 1
    /\ Finish(t, "ok")
    /\ UNCHANGED <<levelToName, attrECHO, modEcho, clsEcho, regCount, last>>

NextRace ==
    \E t \in Threads :
        \/ Begin(t)
        \/ Flush(t)
        \/ Check(t)
        \/ Guard(t)
        \/ Check280(t)
        \/ Check282(t)
        \/ Check284(t)
        \/ Set296(t)
        \/ Set297(t)
        \/ Set298(t)
        \/ Set299(t)
        \/ Rename(t)
        \/ Attach(t)

SpecRace == Init /\ [][NextRace]_vars

---------------------------------------------------------------------------
(* Properties *)

\* nothing but this module ever bound ECHO / echo in the logging namespace
NoForeign == attrECHO # "foreign" /\ modEcho # "foreign" /\ clsEcho # "foreign"

\* the last call was get_logger with an unrecognized format string
LastBadFormat ==
    /\ last.op = "get_logger"
    /\ last.fmt # None
    /\ last.fmt[1] \notin ValidFormats

\* an argument expression without the separator ", " inside it
Simple(e) == \A i \in 1..Len(e) : e[i] # ", "

\* C1: once the custom level is registered, the severity values satisfy
\* DEBUG < INFO < ECHO < WARNING < ERROR < CRITICAL.
C1_SeverityLadder ==
    attrECHO = "own" =>
        /\ DEBUG < INFO
        /\ INFO < logging_ECHO(Cur)
        /\ logging_ECHO(Cur) < WARNING
        /\ WARNING < ERROR
        /\ ERROR < CRITICAL

\* C2: a get_logger call with neither level nor fmt, on a logger that has
\* been configured (has a handler attached), returns normally and changes
\* nothing: handler lists, thresholds, level-name table, registration.
C2_IdempotentFastPath ==
    [][ ( /\ last'.op = "get_logger"
          /\ last'.level = None
          /\ last'.fmt = None
          /\ handlers[last'.id] # <<>> )
        => ( /\ last'.outcome = "ok"
             /\ UNCHANGED <<cfgvars, nextH, regCount>> ) ]_vars

C2_Witness ==
    /\ last.op = "get_logger"
    /\ last.level = None
    /\ last.fmt = None
    /\ last.fast
    /\ last.id = "a"
    /\ handlers["a"] # <<>>
    /\ handlers["a"][1].formatter = fmt_str("long")

\* C3: a get_logger call with an unrecognized format never mutates the
\* logger configuration (handler lists, thresholds, level-name table,
\* ECHO registration).
C3_ValidateBeforeMutate ==
    [][ LastBadFormat' => UNCHANGED cfgvars ]_vars

\* C4: a get_logger call with an unrecognized format always fails with
\* ValueError, for every identifier and in every prior state.
C4_InvalidFormatAlwaysFails ==
    (NoForeign /\ LastBadFormat) => last.outcome = "ValueError"

\* C5: a get_logger call with a level and/or a recognized format returns
\* with every earlier handler of the logger detached and exactly one new
\* handler, whose threshold and the logger's threshold are the requested
\* level and whose formatter is the one of the requested format.
C5_ResetAndRebuild ==
    [][ ( /\ NoForeign'
          /\ last'.op = "get_logger"
          /\ (last'.level # None \/ last'.fmt # None)
          /\ (last'.fmt = None \/ last'.fmt[1] \in ValidFormats) )
        => LET id == last'.id
               lv == IF last'.level = None THEN ECHO_LEVEL ELSE last'.level[1]
               f == IF last'.fmt = None THEN "short-time" ELSE last'.fmt[1]
           IN /\ last'.outcome = "ok"
              /\ Len(handlers'[id]) = 1
              /\ \A i \in 1..Len(handlers[id]) :
                     handlers[id][i].hid # handlers'[id][1].hid
              /\ handlers'[id][1].level = lv
              /\ level'[id] = lv
              /\ handlers'[id][1].formatter = fmt_str(f) ]_vars

\* C6: in a process where nothing else bound ECHO or echo, the level is
\* injected at most once, no call raises the already-defined error, and
\* once registered no call changes the registration.
C6_OnceOnlyRegistration ==
    /\ [](NoForeign =>
            (regCount <= 1 /\ last.outcome # "AttributeError: already defined"))
    /\ [][ attrECHO = "own" =>
            UNCHANGED <<attrECHO, modEcho, clsEcho, regCount>> ]_vars

C6_Witness ==
    /\ NoForeign
    /\ regCount = 1
    /\ nextH >= 2
    /\ last.op = "get_logger"
    /\ ~last.fast
    /\ last.outcome = "ok"

\* C7: when ECHO or echo is already bound by something else, a get_logger
\* call that reaches registration fails with the already-defined error.
C7_ForeignConflictPropagates ==
    ( /\ ~NoForeign
      /\ last.op = "get_logger"
      /\ ~last.fast )
    => last.outcome = "AttributeError: already defined"

\* C8: in an echo call with p >= 1 positional and k >= 1 keyword arguments
\* every keyword value is paired with its keyword, and the trailing name is
\* the last keyword.
C8_KeywordNamedByKeyword ==
    ( /\ NoForeign
      /\ last.op = "echo"
      /\ last.outcome = "ok"
      /\ Len(last.pos) >= 1
      /\ Len(last.kws) >= 1
      /\ \A i \in 1..Len(last.pos) : Simple(last.pos[i]) )
    => /\ \A j \in 1..Len(last.kws) :
            \E i \in 1..Len(last.sent) :
                last.sent[i] = << <<last.kws[j].key>>, Val(last.kws[j].expr) >>
       /\ last.sent # <<>>
       /\ last.sent[Len(last.sent)][1] = <<last.kws[Len(last.kws)].key>>

\* the records the root logger should write for echo(e1, ..., en)
PositionalLines(pos) == [i \in 1..Len(pos) |-> <<pos[i], Val(pos[i])>>]

\* the root logger lets ECHO records through its injected echo method
EchoEnabled == clsEcho = "own" /\ level[Root] <= ECHO_LEVEL

C10_EchoFrame_AsClaimed ==
    [][ last'.op = "echo" => UNCHANGED cfgvars ]_vars

\* C10 amended: echo called while the root logger has a handler attached
\* changes nothing of the logger configuration.
C10_EchoFrame ==
    [][ (last'.op = "echo" /\ handlers[Root] # <<>>)
        => UNCHANGED <<cfgvars, nextH, regCount>> ]_vars

C10_Witness ==
    /\ last.op = "echo"
    /\ last.outcome = "ok"
    /\ last.emitted # <<>>
    /\ handlers[Root] # <<>>
    /\ level[Root] = DEBUG

ExpectedColor(levelno) ==
    CASE levelno = DEBUG -> C_b
      [] levelno = INFO -> C_g
      [] levelno = ECHO_LEVEL -> C_m
      [] levelno = WARNING -> C_y
      [] levelno = ERROR -> C_r
      [] levelno = CRITICAL -> C_bg_r
      [] OTHER -> C_gy

\* C12: every line a factory-built handler writes carries the color of the
\* record's own level entry, or the gray NOTSET entry for any other
\* severity, then the tag template, the reset code and the message.
C12_TemplateTotal ==
    (NoForeign /\ last.op = "log") =>
        \A i \in 1..Len(last.rendered) :
            LET line == last.rendered[i]
            IN line.hid # 0 =>
                /\ Len(line.template) = 4
                /\ line.template[1] = ExpectedColor(last.levelno)
                /\ line.template[3] = C_reset
                /\ line.template[4] = " %(message)s"

\* the level names each format is expected to register
ExpectedShortNames ==
    (NOTSET :> "?") @@ (DEBUG :> "/") @@ (ECHO_LEVEL :> ">") @@ (INFO :> "-") @@
    (WARNING :> "!") @@ (ERROR :> "x") @@ (CRITICAL :> "X")

ExpectedLongNames ==
    (NOTSET :> "[UNSET") @@ (DEBUG :> "[DEBUG") @@ (ECHO_LEVEL :> " [ECHO") @@
    (INFO :> " [INFO") @@ (WARNING :> " [WARN") @@ (ERROR :> "[ERROR") @@
    (CRITICAL :> "[FATAL")

ExpectedLongTimeNames ==
    (NOTSET :> "UNSET") @@ (DEBUG :> "DEBUG") @@ (ECHO_LEVEL :> " ECHO") @@
    (INFO :> " INFO") @@ (WARNING :> " WARN") @@ (ERROR :> "ERROR") @@
    (CRITICAL :> "FATAL")

ExpectedNames(f) ==
    CASE f = "long" -> ExpectedLongNames
      [] f = "long-time" -> ExpectedLongTimeNames
      [] OTHER -> ExpectedShortNames

\* the seven levels of the ladder
SevenLevels == {NOTSET, DEBUG, ECHO_LEVEL, INFO, WARNING, ERROR, CRITICAL}

\* the last call was a get_logger call that configured its logger
LastConfigured ==
    /\ last.op = "get_logger"
    /\ last.outcome = "ok"
    /\ ~last.fast

\* the format the last get_logger call configured with
LastFormat == IF last.fmt = None THEN "short-time" ELSE last.fmt[1]

\* C13: after get_logger configures with 'long' or 'long-time', the name
\* registered for every level is its long tag, with one leading space when
\* the tag has 4 characters and none when it has 5, so all registered names
\* have the same width; where nothing else bound ECHO all seven levels are
\* registered.
C13_LongTagAlignment ==
    (LastConfigured /\ LastFormat \in {"long", "long-time"}) =>
        /\ \A lv \in DOMAIN levelToName :
               levelToName[lv] = ExpectedNames(LastFormat)[lv]
        /\ \A l1, l2 \in DOMAIN levelToName :
               Len(levelToName[l1]) = Len(levelToName[l2])
        /\ NoForeign => DOMAIN levelToName = SevenLevels

C13_Witness ==
    /\ LastConfigured
    /\ LastFormat = "long-time"
    /\ NoForeign
    /\ levelToName[ECHO_LEVEL] = " ECHO"
    /\ levelToName[DEBUG] = "DEBUG"

\* C14: every successful configuration leaves the shared table holding the
\* tags of the format it configured, for every level of the table (all
\* seven where nothing else bound ECHO); no other call changes the table
\* once a logger was configured; and every line a logger writes carries the
\* name the table holds at that moment, whatever format its own handler
\* was built for.
C14_LastWriterWins ==
    /\ [][ LastConfigured' =>
              /\ \A lv \in DOMAIN levelToName' :
                     levelToName'[lv] = ExpectedNames(LastFormat')[lv]
              /\ NoForeign' => DOMAIN levelToName' = SevenLevels ]_vars
    /\ [][ (nextH >= 1 /\ ~LastConfigured') => UNCHANGED levelToName ]_vars
    /\ [](last.op = "log" =>
            \A i \in 1..Len(last.rendered) :
                last.rendered[i].levelname =
                    IF last.levelno \in DOMAIN levelToName
                    THEN levelToName[last.levelno]
                    ELSE "Level " \o ToString(last.levelno))

\* logger 'a' was configured with a short format, the root later with
\* 'long'; a WARNING record on 'a' is written by the handler of 'a' with the
\* long tag
C14_Witness ==
    /\ last.op = "log"
    /\ last.id = "a"
    /\ last.levelno = WARNING
    /\ handlers["a"] # <<>>
    /\ handlers[Root] # <<>>
    /\ handlers["a"][1].hid < handlers[Root][1].hid
    /\ handlers["a"][1].formatter = fmt_str("short")
    /\ handlers[Root][1].formatter = fmt_str("long")
    /\ \E i \in 1..Len(last.rendered) :
          /\ last.rendered[i].hid = handlers["a"][1].hid
          /\ last.rendered[i].template[2] = fmt_str("short")
          /\ last.rendered[i].levelname = " [WARN"

\* C16: a get_logger call that configures its logger with level omitted
\* sets the handler's and the logger's threshold to the value of
\* logging.ECHO, and with fmt omitted builds the 'short-time' formatter,
\* whatever the logger was configured with before.
C16_DefaultsOnEveryConfiguration ==
    LastConfigured =>
        LET h == handlers[last.id][Len(handlers[last.id])]
        IN /\ last.level = None =>
                (h.level = logging_ECHO(Cur) /\ level[last.id] = logging_ECHO(Cur))
           /\ last.fmt = None => h.formatter = fmt_str("short-time")

\* get_logger(fmt='long') on the root after an earlier configuration of it
C16_Witness ==
    /\ LastConfigured
    /\ NoForeign
    /\ last.id = Root
    /\ last.level = None
    /\ last.fmt = Some("long")
    /\ nextH = 2
    /\ handlers["a"] = <<>>
    /\ level["a"] = NOTSET
    /\ level[Root] = ECHO_LEVEL
    /\ handlers[Root][1].level = ECHO_LEVEL

\* C17: in every state reached by get_logger, echo and newline calls each
\* logger has at most one handler, and whenever a call attaches a handler
\* it is the only one of its logger afterwards.
C17_AtMostOneHandler ==
    /\ [](\A id \in Ids : Len(handlers[id]) <= 1)
    /\ [][ \A id \in Ids :
              (handlers'[id] # handlers[id] /\ handlers'[id] # <<>>) =>
                  /\ Len(handlers'[id]) = 1
                  /\ handlers'[id][1].hid = nextH'
                  /\ nextH' = nextH + 1 ]_vars

\* both loggers configured, the root reconfigured at least once
C17_Witness ==
    /\ Len(handlers[Root]) = 1
    /\ Len(handlers["a"]) = 1
    /\ nextH = 2
    /\ last.op = "get_logger"
    /\ last.id = Root
    /\ ~last.fast

\* no call began while another thread was inside get_logger
Serial == \A t \in Threads : ~thr[t].overlapped

\* C15: two get_logger calls on the same unconfigured logger whose steps
\* interleave can inject ECHO twice, or have the second injection raise the
\* already-defined error, and can leave the logger with two handlers
\* (C15_Witness, C15_WitnessConflict); calls that do not overlap never do.
C15_OnlyOverlappingCallsRace ==
    (NoForeign /\ Serial) =>
        /\ regCount <= 1
        /\ \A t \in Threads : thr[t].outcome # "AttributeError: already defined"
        /\ \A id \in Ids : Len(handlers[id]) <= 1

\* both threads ran get_logger() on the same fresh logger: ECHO was
\* injected twice and the logger has two handlers
C15_Witness ==
    /\ \A t \in Threads : thr[t].pc = "done" /\ thr[t].outcome = "ok"
    /\ thr[1].id = thr[2].id
    /\ \A t \in Threads : thr[t].lvl = None /\ thr[t].fmt = None
    /\ regCount = 2
    /\ Len(handlers[thr[1].id]) = 2

\* the second injection raised the already-defined error
C15_WitnessConflict ==
    /\ NoForeign
    /\ thr[1].pc = "done" /\ thr[1].outcome = "ok"
    /\ thr[2].pc = "done" /\ thr[2].outcome = "AttributeError: already defined"
    /\ thr[1].id = thr[2].id
    /\ regCount = 1

====
